---- MODULE Spec2Model ----
(***************************************************************************)
(* Model of the eyehike link checkers: sitewide_link_checker.py (sitemap   *)
(* crawl of several sites) and webcam_link_checker.py (one fixed page).    *)
(* Python str values are sequences of one-character strings, so that       *)
(* rstrip, startswith, slicing and comparison are computed, not assumed.   *)
(* The checked_at timestamp of a result is left out: nothing reads it.     *)
(***************************************************************************)
EXTENDS Integers, Sequences, FiniteSets, TLC

VARIABLES script, pc, site_idx, page_urls, page_task, seen_urls, site_links,
          all_links, link_task, results, exit_code, report_written,
          json_written, log, waiter, served

vars == <<script, pc, site_idx, page_urls, page_task, seen_urls, site_links,
          all_links, link_task, results, exit_code, report_written,
          json_written, log, waiter, served>>

\* ------------------------------------------------------------------ bounds
\* Pages one site's sitemap can list.
MaxPages == 2
\* Anchors on one page.
MaxAnchors == 2
\* Candidates handed to check_all_links when it is checked on its own.
MaxCands == 3

\* ------------------------------------------------------- program constants
MAX_WORKERS == 12
WEBCAM_MAX_WORKERS == 10
PAGE_WORKERS == 5
\* str(e)[:60]
DiagCap == 60
\* [:80] of labels, titles and sections
DisplayLen == 80

\* ------------------------------------------------------------ Python str
Min(a, b) == IF a <= b THEN a ELSE b

\* s[:n]
Take(s, n) == SubSeq(s, 1, Min(Len(s), n))

\* s.rstrip("/"): every trailing "/" is removed, not only one.
RECURSIVE rstrip(_)
rstrip(s) ==
    IF Len(s) > 0 /\ s[Len(s)] = "/" THEN rstrip(SubSeq(s, 1, Len(s) - 1)) ELSE s

\* s.startswith(p)
startswith(s, p) == Len(s) >= Len(p) /\ SubSeq(s, 1, Len(p)) = p

\* A string of n characters.
Filler(n) == [i \in 1..n |-> "x"]

\* The characters of the site names, in code point order.
CodeOrder == <<"0", "1", "6", "E", "U", "c", "d", "e", "h", "i", "k", "n",
               "p", "r", "s", "t", "y">>

ord(c) == CHOOSE i \in 1..Len(CodeOrder) : CodeOrder[i] = c

\* a < b for two str values: the first differing character decides, and a
\* proper prefix is smaller.
RECURSIVE StrLess(_, _)
StrLess(a, b) ==
    IF Len(b) = 0 THEN FALSE
    ELSE IF Len(a) = 0 THEN TRUE
    ELSE IF a[1] # b[1] THEN ord(a[1]) < ord(b[1])
    ELSE StrLess(Tail(a), Tail(b))

\* ------------------------------------------------------- string values
Eyehike == <<"E", "y", "e", "h", "i", "k", "e">>
Unscripted6160 ==
    <<"U", "n", "s", "c", "r", "i", "p", "t", "e", "d", "6", "1", "6", "0">>
PostSitemap ==
    <<"p", "o", "s", "t", "-", "s", "i", "t", "e", "m", "a", "p", ".", "x",
      "m", "l">>
PageSitemap ==
    <<"p", "a", "g", "e", "-", "s", "i", "t", "e", "m", "a", "p", ".", "x",
      "m", "l">>
WpPostSitemap ==
    <<"w", "p", "-", "s", "i", "t", "e", "m", "a", "p", "-", "p", "o", "s",
      "t", "s", "-", "p", "o", "s", "t", "-", "1", ".", "x", "m", "l">>
WpPageSitemap ==
    <<"w", "p", "-", "s", "i", "t", "e", "m", "a", "p", "-", "p", "o", "s",
      "t", "s", "-", "p", "a", "g", "e", "-", "1", ".", "x", "m", "l">>
WwwEyehikeCom ==
    <<"w", "w", "w", ".", "e", "y", "e", "h", "i", "k", "e", ".", "c", "o",
      "m">>
EyehikeCom == <<"e", "y", "e", "h", "i", "k", "e", ".", "c", "o", "m">>
WwwUnscriptedCom ==
    <<"w", "w", "w", ".", "u", "n", "s", "c", "r", "i", "p", "t", "e", "d",
      "6", "1", "6", "0", ".", "c", "o", "m">>
UnscriptedCom ==
    <<"u", "n", "s", "c", "r", "i", "p", "t", "e", "d", "6", "1", "6", "0",
      ".", "c", "o", "m">>
WordpressOrg ==
    <<"w", "o", "r", "d", "p", "r", "e", "s", "s", ".", "o", "r", "g">>
WwwElegantthemesCom ==
    <<"w", "w", "w", ".", "e", "l", "e", "g", "a", "n", "t", "t", "h", "e",
      "m", "e", "s", ".", "c", "o", "m">>
ElegantthemesCom ==
    <<"e", "l", "e", "g", "a", "n", "t", "t", "h", "e", "m", "e", "s", ".",
      "c", "o", "m">>
SchemaOrg == <<"s", "c", "h", "e", "m", "a", ".", "o", "r", "g">>
WwwW3Org == <<"w", "w", "w", ".", "w", "3", ".", "o", "r", "g">>
FontsGoogleapisCom ==
    <<"f", "o", "n", "t", "s", ".", "g", "o", "o", "g", "l", "e", "a", "p",
      "i", "s", ".", "c", "o", "m">>
FontsGstaticCom ==
    <<"f", "o", "n", "t", "s", ".", "g", "s", "t", "a", "t", "i", "c", ".",
      "c", "o", "m">>
Http == <<"h", "t", "t", "p">>
LocPost ==
    <<"/", "p", "o", "s", "t", "-", "s", "i", "t", "e", "m", "a", "p", ".",
      "x", "m", "l">>
LocWpPost ==
    <<"/", "w", "p", "-", "s", "i", "t", "e", "m", "a", "p", "-", "p", "o",
      "s", "t", "s", "-", "p", "o", "s", "t", "-", "1", ".", "x", "m", "l">>
LocCategory ==
    <<"/", "c", "a", "t", "e", "g", "o", "r", "y", "-", "s", "i", "t", "e",
      "m", "a", "p", ".", "x", "m", "l">>
HrefA == <<"h", "t", "t", "p", ":", "/", "/", "a", ".", "i", "o", "/", "x">>
HrefB == <<"h", "t", "t", "p", "s", ":", "/", "/", "b", ".", "i", "o", "/">>
HrefInternal ==
    <<"h", "t", "t", "p", "s", ":", "/", "/", "W", "W", "W", ".", "E", "y",
      "e", "h", "i", "k", "e", ".", "c", "o", "m", "/", "p">>
HrefSchema ==
    <<"h", "t", "t", "p", "s", ":", "/", "/", "s", "c", "h", "e", "m", "a",
      ".", "o", "r", "g", "/">>
HrefMailto ==
    <<"m", "a", "i", "l", "t", "o", ":", "a", "@", "b", ".", "i", "o">>
HrefAnchor == <<"#", "t", "o", "p">>
Page1 == <<"/", "p", "1">>
Page2 == <<"/", "p", "2">>
TitleText == <<"H", "i", "k", "e">>
AnchorText == <<"c", "a", "m">>
WebcamTarget ==
    <<"h", "t", "t", "p", "s", ":", "/", "/", "w", "w", "w", ".", "e", "y",
      "e", "h", "i", "k", "e", ".", "c", "o", "m", "/", "2", "0", "1", "6",
      "/", "w", "e", "b", "c", "a", "m", "s", "/">>
UrlPlain == HrefA
UrlSlash == HrefA \o <<"/">>
UrlSlashes == HrefA \o <<"/", "/">>
UrlMoved == <<"h", "t", "t", "p", ":", "/", "/", "a", ".", "i", "o", "/", "y">>

\* ------------------------------------------------------------ check_link
STATUSES == {"OK", "REDIRECT", "BROKEN", "TIMEOUT", "ERROR"}

\* The classes each exception is an instance of (requests.exceptions):
\* ConnectTimeout derives from both ConnectionError and Timeout.
Bases(cls) ==
    CASE cls = "ConnectionError"  -> {"ConnectionError", "RequestException", "Exception"}
      [] cls = "ConnectTimeout"   -> {"ConnectTimeout", "ConnectionError", "Timeout",
                                      "RequestException", "Exception"}
      [] cls = "ReadTimeout"      -> {"ReadTimeout", "Timeout", "RequestException",
                                      "Exception"}
      [] cls = "TooManyRedirects" -> {"TooManyRedirects", "RequestException",
                                      "Exception"}
      [] cls = "UnicodeError"     -> {"UnicodeError", "ValueError", "Exception"}

ExceptionClasses ==
    {"ConnectionError", "ConnectTimeout", "ReadTimeout", "TooManyRedirects",
     "UnicodeError"}

\* What one request gives: a response (status_code, url) or a raised exception.
Response(code, url) ==
    [kind |-> "response", status_code |-> code, url |-> url, exc |-> "", msg |-> <<>>]

Raises(cls, msg) ==
    [kind |-> "raise", status_code |-> 0, url |-> <<>>, exc |-> cls, msg |-> msg]

\* status_code holds an int or a str.
IntCode(n) == [code |-> n]
StrCode(s) == [text |-> s]

ConnectionErrorText ==
    <<"C", "o", "n", "n", "e", "c", "t", "i", "o", "n", " ", "E", "r", "r", "o", "r">>
TimeoutText == <<"T", "i", "m", "e", "o", "u", "t">>

Outcome(status, status_code, final_url) ==
    [status |-> status, status_code |-> status_code, final_url |-> final_url]

\* The HEAD statuses after which GET is tried.
FallbackCodes == {405, 403, 501}

\* The requests check_link issues, in order, with what each gave.
Requests(head, get) ==
    IF head.kind = "response" /\ head.status_code \in FallbackCodes
    THEN <<[method |-> "HEAD", outcome |-> head], [method |-> "GET", outcome |-> get]>>
    ELSE <<[method |-> "HEAD", outcome |-> head]>>

\* The except clauses, first match first; <<>> when none matches and the
\* exception leaves check_link.
MutHandleNoCatchAll(e) ==
    IF "ConnectionError" \in Bases(e.exc)
    THEN <<Outcome("BROKEN", StrCode(ConnectionErrorText), <<>>)>>
    ELSE IF "Timeout" \in Bases(e.exc)
    THEN <<Outcome("TIMEOUT", StrCode(TimeoutText), <<>>)>>
    ELSE <<>>

Handle(e) ==
    IF "ConnectionError" \in Bases(e.exc)
    THEN <<Outcome("BROKEN", StrCode(ConnectionErrorText), <<>>)>>
    ELSE IF "Timeout" \in Bases(e.exc)
    THEN <<Outcome("TIMEOUT", StrCode(TimeoutText), <<>>)>>
    ELSE IF "Exception" \in Bases(e.exc)
    THEN <<Outcome("ERROR", StrCode(Take(e.msg, DiagCap)), <<>>)>>
    ELSE <<>>

\* The classification of the response r to the check of url.
MutClassifyKeepFinal(url, r) ==
    LET redirected == rstrip(r.url) # rstrip(url)
    IN  IF 200 <= r.status_code /\ r.status_code < 400
        THEN Outcome(IF ~redirected THEN "OK" ELSE "REDIRECT",
                     IntCode(r.status_code), r.url)
        ELSE Outcome("BROKEN", IntCode(r.status_code), <<>>)

Classify(url, r) ==
    LET redirected == rstrip(r.url) # rstrip(url)
    IN  IF 200 <= r.status_code /\ r.status_code < 400
        THEN Outcome(IF ~redirected THEN "OK" ELSE "REDIRECT",
                     IntCode(r.status_code),
                     IF redirected THEN r.url ELSE <<>>)
        ELSE Outcome("BROKEN", IntCode(r.status_code), <<>>)

\* The response check_link classifies: GET's when the fallback ran.
MutLastHeadOnly(reqs) == reqs[1].outcome

LastResponse(reqs) == reqs[Len(reqs)].outcome

\* check_link(entry) when HEAD gives head and GET, if tried, gives get:
\* <<result>>, or <<>> when an exception leaves the function.
check_link(entry, head, get) ==
    LET reqs   == Requests(head, get)
        failed == {i \in 1..Len(reqs) : reqs[i].outcome.kind = "raise"}
        out    == IF failed # {}
                  THEN Handle(reqs[CHOOSE i \in failed : TRUE].outcome)
                  ELSE <<Classify(entry.url, LastResponse(reqs))>>
    IN  IF out = <<>> THEN <<>> ELSE <<out[1] @@ entry>>

\* ------------------------------------------------------- check_all_links
\* order.get(status, 5)
order(status) ==
    CASE status = "BROKEN"   -> 0
      [] status = "TIMEOUT"  -> 1
      [] status = "ERROR"    -> 2
      [] status = "REDIRECT" -> 3
      [] status = "OK"       -> 4
      [] OTHER               -> 5

\* r.get("site", "")
SiteOf(r) == IF "site" \in DOMAIN r THEN r.site ELSE <<>>

\* key(a) < key(b) for the sort key of the running script: (site, rank) in the
\* sitewide script, the rank alone in the webcam script.
MutKeyLessRankOnly(s, a, b) == order(a.status) < order(b.status)

KeyLess(s, a, b) ==
    IF s = "sitewide"
    THEN \/ StrLess(SiteOf(a), SiteOf(b))
         \/ SiteOf(a) = SiteOf(b) /\ order(a.status) < order(b.status)
    ELSE order(a.status) < order(b.status)

\* x put into the sorted sequence after every element whose key is not greater.
RECURSIVE MutInsertDropEqual(_, _, _)
MutInsertDropEqual(s, sorted, x) ==
    IF sorted = <<>> THEN <<x>>
    ELSE IF KeyLess(s, x, sorted[1]) THEN <<x>> \o sorted
    ELSE IF ~KeyLess(s, sorted[1], x) THEN sorted
    ELSE <<sorted[1]>> \o MutInsertDropEqual(s, Tail(sorted), x)

RECURSIVE Insert(_, _, _)
Insert(s, sorted, x) ==
    IF sorted = <<>> THEN <<x>>
    ELSE IF KeyLess(s, x, sorted[1]) THEN <<x>> \o sorted
    ELSE <<sorted[1]>> \o Insert(s, Tail(sorted), x)

\* list.sort(key=...): a stable sort.
RECURSIVE SortFrom(_, _, _)
SortFrom(s, sorted, rest) ==
    IF rest = <<>> THEN sorted
    ELSE SortFrom(s, Insert(s, sorted, rest[1]), Tail(rest))

sort(s, rs) == SortFrom(s, <<>>, rs)

MutMaxWorkersOffByOne(s) ==
    (IF s = "sitewide" THEN MAX_WORKERS ELSE WEBCAM_MAX_WORKERS) + 1

MaxWorkersOf(s) == IF s = "sitewide" THEN MAX_WORKERS ELSE WEBCAM_MAX_WORKERS

Queued == [state |-> "queued", value |-> <<>>, reqs |-> <<>>]

\* pool.submit(check_link, lnk) for every lnk of links
SubmitAll(links) == [i \in 1..Len(links) |-> Queued]

InFlight(tasks) == {i \in 1..Len(tasks) : tasks[i].state = "running"}

\* The waiter of concurrent.futures.as_completed(futures): not started until
\* the loop asks for the first future; then initial holds the futures that had
\* finished by then, which it yields in the order of a set of objects, any
\* order, and finished the ones that finish later, which it yields in the
\* order they finish.
NoWaiter == [started |-> FALSE, initial |-> {}, finished |-> <<>>]

\* A task finishes: the waiter, once installed, is told.
Notify(i) == IF waiter.started
             THEN [waiter EXCEPT !.finished = Append(@, i)]
             ELSE waiter

\* as_completed can yield future i next.
Yields(i) ==
    /\ waiter.started
    /\ \/ i \in waiter.initial
       \/ waiter.initial = {} /\ waiter.finished # <<>> /\ Head(waiter.finished) = i

\* The waiter after it yielded future i.
Yielded(i) ==
    IF i \in waiter.initial
    THEN [waiter EXCEPT !.initial = @ \ {i}]
    ELSE [waiter EXCEPT !.finished = Tail(@)]

\* The for loop asks as_completed for its first future: the futures that have
\* finished so far are set apart and the waiter is installed.
AsCompleted ==
    /\ pc \in {"crawl_pages", "check"}
    /\ ~waiter.started
    /\ LET tasks == IF pc = "check" THEN link_task ELSE page_task
       IN  waiter' = [started |-> TRUE,
                      initial |-> {i \in 1..Len(tasks) : tasks[i].state = "done"},
                      finished |-> <<>>]
    /\ UNCHANGED <<script, pc, site_idx, page_urls, page_task, seen_urls,
                   site_links, all_links, link_task, results, exit_code,
                   report_written, json_written, log, served>>

\* An exception nobody catches ends the sitewide script with a traceback; the
\* webcam script's main catches it, prints it and calls sys.exit(1). Either
\* way the process ends with a non-zero status at once. log holds the
\* messages printed about a whole site or a whole run, each with the index of
\* the site being crawled.
Abort(what) ==
    /\ pc' = "exit"
    /\ exit_code' = 1
    /\ log' = log \cup {<<what, site_idx>>}

\* A worker thread takes the next queued check_link call.
StartCheck(i) ==
    /\ pc = "check"
    /\ link_task[i].state = "queued"
    /\ \A j \in 1..(i - 1) : link_task[j].state # "queued"
    /\ Cardinality(InFlight(link_task)) < MaxWorkersOf(script)
    /\ link_task' = [link_task EXCEPT ![i].state = "running"]
    /\ UNCHANGED <<script, pc, site_idx, page_urls, page_task, seen_urls,
                   site_links, all_links, results, exit_code, report_written,
                   json_written, log, waiter, served>>

\* check_link runs to its end in its worker, the network answering the HEAD for
\* its url with one of heads and the GET with one of gets.
FinishCheck(i, heads, gets) ==
    /\ pc = "check"
    /\ link_task[i].state = "running"
    /\ \E head \in heads, get \in gets :
         link_task' = [link_task EXCEPT ![i] =
                          [state |-> "done",
                           value |-> check_link(all_links[i], head, get),
                           reqs  |-> Requests(head, get)]]
    /\ waiter' = Notify(i)
    /\ UNCHANGED <<script, pc, site_idx, page_urls, page_task, seen_urls,
                   site_links, all_links, results, exit_code, report_written,
                   json_written, log, served>>

\* results.append(future.result()) for a future as_completed yields; result()
\* raises again what check_link raised.
Collect(i) ==
    /\ pc = "check"
    /\ link_task[i].state = "done"
    /\ Yields(i)
    /\ waiter' = Yielded(i)
    /\ link_task' = [link_task EXCEPT ![i].state = "collected"]
    /\ IF link_task[i].value # <<>>
       THEN /\ results' = Append(results, link_task[i].value[1])
            /\ UNCHANGED <<pc, exit_code, log>>
       ELSE /\ Abort("check_link raised")
            /\ UNCHANGED results
    /\ UNCHANGED <<script, site_idx, page_urls, page_task, seen_urls,
                   site_links, all_links, report_written, json_written,
                   served>>

\* Every future collected: results.sort(...) and return.
SortResults ==
    /\ pc = "check"
    /\ waiter.started
    /\ \A i \in 1..Len(link_task) : link_task[i].state = "collected"
    /\ results' = sort(script, results)
    /\ pc' = "report"
    /\ UNCHANGED <<script, site_idx, page_urls, page_task, seen_urls,
                   site_links, all_links, link_task, exit_code, report_written,
                   json_written, log, waiter, served>>

\* ---------------------------------------------------------- configuration
SITES ==
    <<[name |-> Eyehike,
       sitemap_filter |-> <<PostSitemap, PageSitemap>>,
       skip_domains |-> {WwwEyehikeCom, EyehikeCom}],
      [name |-> Unscripted6160,
       sitemap_filter |-> <<WpPostSitemap, WpPageSitemap>>,
       skip_domains |-> {WwwUnscriptedCom, UnscriptedCom}]>>

GLOBAL_SKIP_DOMAINS ==
    {WordpressOrg, WwwElegantthemesCom, ElegantthemesCom, SchemaOrg, WwwW3Org,
     FontsGoogleapisCom, FontsGstaticCom}

\* SKIP_DOMAINS of the webcam script
SKIP_DOMAINS == {WwwEyehikeCom, EyehikeCom, WordpressOrg, WwwElegantthemesCom}

\* ------------------------------------------------- more of Python's str
\* f in s
Contains(s, f) == \E i \in 0..(Len(s) - Len(f)) : SubSeq(s, i + 1, i + Len(f)) = f

\* s.strip(), for the blank
RECURSIVE strip(_)
strip(s) ==
    IF Len(s) > 0 /\ s[1] = " " THEN strip(Tail(s))
    ELSE IF Len(s) > 0 /\ s[Len(s)] = " " THEN strip(SubSeq(s, 1, Len(s) - 1))
    ELSE s

UpperCase ==
    <<"A", "B", "C", "D", "E", "F", "G", "H", "I", "J", "K", "L", "M", "N",
      "O", "P", "Q", "R", "S", "T", "U", "V", "W", "X", "Y", "Z">>
LowerCase ==
    <<"a", "b", "c", "d", "e", "f", "g", "h", "i", "j", "k", "l", "m", "n",
      "o", "p", "q", "r", "s", "t", "u", "v", "w", "x", "y", "z">>
Digits == <<"0", "1", "2", "3", "4", "5", "6", "7", "8", "9">>

Range(s) == {s[i] : i \in 1..Len(s)}

\* s.lower()
lower(s) ==
    [i \in 1..Len(s) |->
        IF s[i] \in Range(UpperCase)
        THEN LowerCase[CHOOSE k \in 1..Len(UpperCase) : UpperCase[k] = s[i]]
        ELSE s[i]]

\* s.find(c) as a 1-based position, 0 when c is not in s
Find(s, cs) ==
    IF \E i \in 1..Len(s) : s[i] \in cs
    THEN CHOOSE i \in 1..Len(s) : s[i] \in cs /\ \A j \in 1..(i - 1) : s[j] \notin cs
    ELSE 0

\* urlparse(href).netloc: after a valid scheme and "//", up to the next
\* "/", "?" or "#"; empty when there is no "//" there.
netloc(href) ==
    LET colon  == Find(href, {":"})
        letters == Range(UpperCase) \cup Range(LowerCase)
        valid  == /\ colon > 1
                  /\ href[1] \in letters
                  /\ \A i \in 1..(colon - 1) :
                        href[i] \in letters \cup Range(Digits) \cup {"+", "-", "."}
        rest   == IF valid THEN SubSeq(href, colon + 1, Len(href)) ELSE href
        after  == SubSeq(rest, 3, Len(rest))
        stop   == Find(after, {"/", "?", "#"})
    IN  IF startswith(rest, <<"/", "/">>)
        THEN (IF stop = 0 THEN after ELSE SubSeq(after, 1, stop - 1))
        ELSE <<>>

\* a or b
OrElse(a, b) == IF a # <<>> THEN a ELSE b

\* --------------------------------------------------- parse_sitemap_index
\* What a GET of a sitemap gives: kind is "neterr" (requests.get raised),
\* "non2xx" (raise_for_status raised) or "ok"; then wellformed says whether
\* the body parses as XML and entries are its elements in document order.
SitemapFetch(kind, wellformed, entries) ==
    [kind |-> kind, wellformed |-> wellformed, entries |-> entries]

\* One <sitemap> element of an index: its <loc> text (empty when missing)
\* and what a GET of that loc gives.
SitemapEntry(loc, fetch) == [loc |-> loc, fetch |-> fetch]

\* any(f in loc for f in filter_list)
Matches(loc, filter_list) ==
    \E k \in 1..Len(filter_list) : Contains(loc, filter_list[k])

\* The page URLs one matching sub-sitemap adds: its non-empty <url><loc>
\* texts, or nothing when its fetch or its parse raises.
SubSitemapUrls(fetch) ==
    IF fetch.kind = "ok" /\ fetch.wellformed
    THEN SelectSeq(fetch.entries, LAMBDA loc : loc # <<>>)
    ELSE <<>>

RECURSIVE Concat(_)
Concat(ss) == IF ss = <<>> THEN <<>> ELSE ss[1] \o Concat(Tail(ss))

\* parse_sitemap_index(sitemap_url, filter_list) when the index GET gives
\* fetch: the page URLs, whether it raised, and the message printed about
\* the index (the messages about sub-sitemaps are left out). Only requests.get
\* and raise_for_status are inside the first try; ET.fromstring of the index
\* is outside it.
MutParseAllOrNothing(fetch, filter_list) ==
    LET subs == SelectSeq(fetch.entries, LAMBDA e : Matches(e.loc, filter_list))
    IN  IF fetch.kind # "ok"
        THEN [raised |-> FALSE, page_urls |-> <<>>, log |-> {"sitemap_error"}]
        ELSE IF ~fetch.wellformed
        THEN [raised |-> TRUE, page_urls |-> <<>>, log |-> {}]
        ELSE [raised |-> FALSE,
              page_urls |->
                  IF \E k \in 1..Len(subs) :
                        ~(subs[k].fetch.kind = "ok" /\ subs[k].fetch.wellformed)
                  THEN <<>>
                  ELSE Concat([k \in 1..Len(subs) |-> SubSitemapUrls(subs[k].fetch)]),
              log |-> {}]

parse_sitemap_index(fetch, filter_list) ==
    LET subs == SelectSeq(fetch.entries, LAMBDA e : Matches(e.loc, filter_list))
    IN  IF fetch.kind # "ok"
        THEN [raised |-> FALSE, page_urls |-> <<>>, log |-> {"sitemap_error"}]
        ELSE IF ~fetch.wellformed
        THEN [raised |-> TRUE, page_urls |-> <<>>, log |-> {}]
        ELSE [raised |-> FALSE,
              page_urls |-> Concat([k \in 1..Len(subs) |-> SubSitemapUrls(subs[k].fetch)]),
              log |-> {}]

\* -------------------------------------------------- extracting the links
\* What a GET of a page gives: kind as for a sitemap; title is <<>> or
\* <<text>> of the <title> element; anchors are the <a href> elements in
\* document order, each with its href, its text and, as <<>> or <<text>>,
\* the text of the <h3> it stands in.
PageFetch(kind, title, anchors) == [kind |-> kind, title |-> title, anchors |-> anchors]

Anchor(href, text, h3) == [href |-> href, text |-> text, h3 |-> h3]

\* The loop over the anchors of extract_links_from_page: links and seen so
\* far, then the anchors left.
RECURSIVE ExtractLoop(_, _, _, _, _, _)
ExtractLoop(links, seen, anchors, page_url, page_title, all_skip) ==
    IF anchors = <<>> THEN links
    ELSE
        LET tag   == anchors[1]
            href  == strip(tag.href)
            label == OrElse(Take(strip(tag.text), DisplayLen), Take(href, DisplayLen))
            skip  == \/ ~startswith(href, Http)
                     \/ lower(netloc(href)) \in all_skip
                     \/ href \in seen
        IN  IF skip
            THEN ExtractLoop(links, seen, Tail(anchors), page_url, page_title, all_skip)
            ELSE ExtractLoop(
                     Append(links, [url |-> href, label |-> label,
                                    page_url |-> page_url, page_title |-> page_title]),
                     seen \cup {href}, Tail(anchors), page_url, page_title, all_skip)

\* extract_links_from_page(page_url, skip_domains) when the page GET gives
\* fetch: a failed fetch gives no links.
MutExtractNoStatusCheck(page_url, skip_domains, fetch) ==
    IF fetch.kind = "neterr" THEN <<>>
    ELSE ExtractLoop(<<>>, {}, fetch.anchors, page_url,
                     IF fetch.title # <<>> THEN Take(strip(fetch.title[1]), DisplayLen)
                     ELSE page_url,
                     skip_domains \cup GLOBAL_SKIP_DOMAINS)

extract_links_from_page(page_url, skip_domains, fetch) ==
    IF fetch.kind # "ok" THEN <<>>
    ELSE ExtractLoop(<<>>, {}, fetch.anchors, page_url,
                     IF fetch.title # <<>> THEN Take(strip(fetch.title[1]), DisplayLen)
                     ELSE page_url,
                     skip_domains \cup GLOBAL_SKIP_DOMAINS)

\* The loop over the anchors of scrape_links.
RECURSIVE ScrapeLoop(_, _, _)
ScrapeLoop(links, seen, anchors) ==
    IF anchors = <<>> THEN links
    ELSE
        LET tag     == anchors[1]
            href    == strip(tag.href)
            label   == OrElse(strip(tag.text), href)
            section == IF tag.h3 # <<>> THEN Take(strip(tag.h3[1]), DisplayLen)
                       ELSE Take(label, DisplayLen)
            skip    == \/ ~startswith(href, Http)
                       \/ lower(netloc(href)) \in SKIP_DOMAINS
                       \/ href \in seen
        IN  IF skip THEN ScrapeLoop(links, seen, Tail(anchors))
            ELSE ScrapeLoop(
                     Append(links, [url |-> href, label |-> label, section |-> section]),
                     seen \cup {href}, Tail(anchors))

\* scrape_links(url) when the page GET gives fetch; <<>> when it raises,
\* else <<links>>.
scrape_links(fetch) ==
    IF fetch.kind # "ok" THEN <<>> ELSE <<ScrapeLoop(<<>>, {}, fetch.anchors)>>

\* ------------------------------------------------ what the network served
\* served is a record of the answers the network gave, kept only in the
\* specifications that turn it on: index is the answer to the last GET of a
\* sitemap index (r of parse_sitemap_index), as <<>> or <<fetch>>, and pages
\* holds, for the page tasks of the crawl under way, the pair of the task and
\* the answer to its GET. The program reads none of it back.
NothingServed(on) == [on |-> on, index |-> <<>>, pages |-> {}]

\* parse_sitemap_index got fetch for the index; a new crawl starts.
ServeIndex(fetch) ==
    IF served.on THEN [on |-> TRUE, index |-> <<fetch>>, pages |-> {}] ELSE served

\* Page task p got fetch for its page.
ServePage(p, fetch) ==
    IF served.on THEN [served EXCEPT !.pages = @ \cup {<<p, fetch>>}] ELSE served

\* ------------------------------------------------------------ crawl_site
QueuedPage == [state |-> "queued", links |-> <<>>]

\* crawl_site returned links to main: all_links.extend(links), then the next
\* site, or check_all_links(all_links) after the last one.
ReturnToMain(links) ==
    /\ all_links' = all_links \o links
    /\ site_idx' = site_idx + 1
    /\ IF site_idx < Len(SITES)
       THEN /\ pc' = "crawl_site"
            /\ UNCHANGED link_task
       ELSE /\ pc' = "check"
            /\ link_task' = SubmitAll(all_links \o links)
    /\ waiter' = NoWaiter

\* crawl_site up to the submission of its page tasks: the sitemap is parsed
\* and, when it lists no page, the site is given up.
ParseSitemap(fetches) ==
    /\ pc = "crawl_site"
    /\ \E fetch \in fetches :
         LET r == parse_sitemap_index(fetch, SITES[site_idx].sitemap_filter)
         IN  /\ Len(r.page_urls) <= MaxPages
             /\ served' = ServeIndex(fetch)
             /\ IF r.raised
                THEN /\ Abort("index_parse_error")
                     /\ UNCHANGED <<site_idx, page_urls, page_task, seen_urls,
                                    site_links, all_links, link_task, waiter>>
                ELSE IF r.page_urls = <<>>
                THEN /\ log' = log \cup {<<m, site_idx>> : m \in r.log \cup {"no_pages"}}
                     /\ ReturnToMain(<<>>)
                     /\ page_urls' = <<>>
                     /\ page_task' = <<>>
                     /\ seen_urls' = {}
                     /\ site_links' = <<>>
                     /\ UNCHANGED exit_code
                ELSE /\ log' = log \cup {<<m, site_idx>> : m \in r.log}
                     /\ page_urls' = r.page_urls
                     /\ page_task' = [p \in 1..Len(r.page_urls) |-> QueuedPage]
                     /\ seen_urls' = {}
                     /\ site_links' = <<>>
                     /\ pc' = "crawl_pages"
                     /\ waiter' = NoWaiter
                     /\ UNCHANGED <<site_idx, all_links, link_task, exit_code>>
    /\ UNCHANGED <<script, results, report_written, json_written>>

\* A worker thread takes the next queued extract_links_from_page call.
StartPage(p) ==
    /\ pc = "crawl_pages"
    /\ page_task[p].state = "queued"
    /\ \A q \in 1..(p - 1) : page_task[q].state # "queued"
    /\ Cardinality(InFlight(page_task)) < PAGE_WORKERS
    /\ page_task' = [page_task EXCEPT ![p].state = "running"]
    /\ UNCHANGED <<script, pc, site_idx, page_urls, seen_urls, site_links,
                   all_links, link_task, results, exit_code, report_written,
                   json_written, log, waiter, served>>

\* extract_links_from_page runs to its end in its worker, the page GET
\* giving one of fetches.
FinishPage(p, fetches) ==
    /\ pc = "crawl_pages"
    /\ page_task[p].state = "running"
    /\ \E fetch \in fetches :
         /\ page_task' = [page_task EXCEPT ![p] =
               [state |-> "done",
                links |-> extract_links_from_page(
                              page_urls[p], SITES[site_idx].skip_domains, fetch)]]
         /\ served' = ServePage(p, fetch)
    /\ waiter' = Notify(p)
    /\ UNCHANGED <<script, pc, site_idx, page_urls, seen_urls, site_links,
                   all_links, link_task, results, exit_code, report_written,
                   json_written, log>>

\* The loop over page_links in crawl_site: a link whose url is not in
\* seen_urls gets the site's name and is appended.
RECURSIVE MutMergeNoDedup(_, _, _, _)
MutMergeNoDedup(links, seen, page_links, name) ==
    IF page_links = <<>> THEN [links |-> links, seen |-> seen]
    ELSE MutMergeNoDedup(Append(links, [site |-> name] @@ page_links[1]),
                         seen \cup {page_links[1].url}, Tail(page_links), name)

RECURSIVE MergeLoop(_, _, _, _)
MergeLoop(links, seen, page_links, name) ==
    IF page_links = <<>> THEN [links |-> links, seen |-> seen]
    ELSE IF page_links[1].url \in seen
    THEN MergeLoop(links, seen, Tail(page_links), name)
    ELSE MergeLoop(Append(links, [site |-> name] @@ page_links[1]),
                   seen \cup {page_links[1].url}, Tail(page_links), name)

\* The body of the as_completed loop for one page: as_completed yields the
\* futures in the order they complete, any finished one first.
MergePage(p) ==
    /\ pc = "crawl_pages"
    /\ page_task[p].state = "done"
    /\ Yields(p)
    /\ waiter' = Yielded(p)
    /\ LET m == MergeLoop(site_links, seen_urls, page_task[p].links,
                          SITES[site_idx].name)
       IN  /\ site_links' = m.links
           /\ seen_urls' = m.seen
    /\ page_task' = [page_task EXCEPT ![p].state = "merged"]
    /\ UNCHANGED <<script, pc, site_idx, page_urls, all_links, link_task,
                   results, exit_code, report_written, json_written, log,
                   served>>

\* Every page merged: crawl_site returns all_links.
CrawlReturn ==
    /\ pc = "crawl_pages"
    /\ waiter.started
    /\ \A p \in 1..Len(page_task) : page_task[p].state = "merged"
    /\ ReturnToMain(site_links)
    /\ UNCHANGED <<script, page_urls, page_task, seen_urls, site_links,
                   results, exit_code, report_written, json_written, log,
                   served>>

\* ------------------------------------------------------------------ main
\* generate_html_report(results, report_path)
GenerateReport ==
    /\ pc = "report"
    /\ report_written' = TRUE
    /\ pc' = "save_json"
    /\ UNCHANGED <<script, site_idx, page_urls, page_task, seen_urls,
                   site_links, all_links, link_task, results, exit_code,
                   json_written, log, waiter, served>>

\* json.dump(results, f), the summary, and the end of main.
SaveJson ==
    /\ pc = "save_json"
    /\ json_written' = TRUE
    /\ pc' = "exit"
    /\ exit_code' = 0
    /\ UNCHANGED <<script, site_idx, page_urls, page_task, seen_urls,
                   site_links, all_links, link_task, results, report_written,
                   log, waiter, served>>

\* The webcam script's scrape_links(TARGET_URL) in main's try: a failed fetch
\* raises, main prints the error and calls sys.exit(1).
ScrapeLinks(fetches) ==
    /\ pc = "scrape"
    /\ \E fetch \in fetches :
         LET r == scrape_links(fetch)
         IN  /\ served' = ServePage(1, fetch)
             /\ IF r = <<>>
                THEN /\ Abort("scrape_links raised")
                     /\ UNCHANGED <<all_links, link_task, waiter>>
                ELSE /\ all_links' = r[1]
                     /\ link_task' = SubmitAll(r[1])
                     /\ waiter' = NoWaiter
                     /\ pc' = "check"
                     /\ UNCHANGED <<exit_code, log>>
    /\ UNCHANGED <<script, site_idx, page_urls, page_task, seen_urls,
                   site_links, results, report_written, json_written>>

\* ------------------------------------------------------------ the web
WebcamEntry(url) == [url |-> url, label |-> AnchorText, section |-> AnchorText]

SitewideEntry(url, page, site) ==
    [url |-> url, label |-> AnchorText, page_url |-> page,
     page_title |-> TitleText, site |-> site]

SeqsUpTo(S, n) == UNION {[1..k -> S] : k \in 0..n}

Failed(kind) == SitemapFetch(kind, FALSE, <<>>)

\* What the GET of a sub-sitemap can give.
SubUrlLists == {<<>>, <<Page1>>, <<Page1, <<>>, Page2>>}

SubFetches ==
    {Failed("neterr"), Failed("non2xx"), Failed("ok")}
    \cup {SitemapFetch("ok", TRUE, us) : us \in SubUrlLists}

\* Bound on the <sitemap> elements of an index.
MaxSubs == 2

IndexEntries ==
    {SitemapEntry(loc, f) : loc \in {LocPost, LocWpPost, LocCategory}, f \in SubFetches}

\* What the GET of a sitemap index can give.
IndexFetches ==
    {Failed("neterr"), Failed("non2xx"), Failed("ok")}
    \cup {SitemapFetch("ok", TRUE, es) : es \in SeqsUpTo(IndexEntries, MaxSubs)}

HrefInternal2 ==
    <<"h", "t", "t", "p", "s", ":", "/", "/", "U", "n", "s", "c", "r", "i",
      "p", "t", "e", "d", "6", "1", "6", "0", ".", "c", "o", "m", "/">>

AnchorA == Anchor(HrefA, AnchorText, <<>>)
AnchorB == Anchor(HrefB, <<>>, <<TitleText>>)

\* The anchors of the pages of the last site.
Anchors ==
    {AnchorA, AnchorB, Anchor(HrefInternal2, AnchorText, <<>>),
     Anchor(HrefSchema, AnchorText, <<>>),
     Anchor(HrefMailto, AnchorText, <<>>), Anchor(HrefAnchor, AnchorText, <<>>)}

\* The anchors of the webcam page.
WebcamAnchors ==
    {AnchorA, AnchorB, Anchor(HrefInternal, AnchorText, <<>>),
     Anchor(HrefMailto, AnchorText, <<>>), Anchor(HrefAnchor, AnchorText, <<>>)}

\* What the GET of a page can give.
PageFetches ==
    {PageFetch("neterr", <<>>, <<>>), PageFetch("non2xx", <<>>, <<>>),
     PageFetch("ok", <<>>, <<AnchorA>>)}
    \cup {PageFetch("ok", <<TitleText>>, as) : as \in SeqsUpTo(Anchors, MaxAnchors)}

\* The pages of the runs of the whole sitewide script.
MainPageFetches ==
    {PageFetch("neterr", <<>>, <<>>), PageFetch("ok", <<TitleText>>, <<>>),
     PageFetch("ok", <<TitleText>>, <<AnchorA>>)}

\* The answers to HEAD in the runs of a whole script.
MainNet(url) == {Response(200, url), Raises("ConnectionError", Filler(0))}

\* Answers to HEAD that give each of the five statuses.
StatusNet(url) ==
    {Response(200, url), Response(200, UrlMoved), Response(404, url),
     Raises("ReadTimeout", Filler(0)), Raises("TooManyRedirects", Filler(0))}

NoGet(url) == {Response(200, url)}

\* ------------------------------------------------- the sitewide script
\* Nothing crawled, checked or written yet; exit_code is -1 while the process
\* runs.
InitIdle ==
    /\ page_urls = <<>>
    /\ page_task = <<>>
    /\ seen_urls = {}
    /\ site_links = <<>>
    /\ results = <<>>
    /\ exit_code = -1
    /\ report_written = FALSE
    /\ json_written = FALSE
    /\ log = {}
    /\ waiter = NoWaiter

Init ==
    /\ InitIdle
    /\ served = NothingServed(FALSE)
    /\ script = "sitewide"
    /\ pc = "crawl_site"
    /\ site_idx = 1
    /\ all_links = <<>>
    /\ link_task = <<>>

Next ==
    \/ AsCompleted
    \/ ParseSitemap(IndexFetches)
    \/ \E p \in 1..Len(page_task) : StartPage(p)
    \/ \E p \in 1..Len(page_task) : FinishPage(p, MainPageFetches)
    \/ \E p \in 1..Len(page_task) : MergePage(p)
    \/ CrawlReturn
    \/ \E i \in 1..Len(link_task) : StartCheck(i)
    \/ \E i \in 1..Len(link_task) :
          FinishCheck(i, MainNet(all_links[i].url), NoGet(all_links[i].url))
    \/ \E i \in 1..Len(link_task) : Collect(i)
    \/ SortResults
    \/ GenerateReport
    \/ SaveJson

Spec == Init /\ [][Next]_vars

\* --------------------------------------------- crawl_site on its own
\* crawl_site(SITES[-1]) as main calls it when the sites before gave no link.
InitCrawl ==
    /\ InitIdle
    /\ served = NothingServed(FALSE)
    /\ script = "sitewide"
    /\ pc = "crawl_site"
    /\ site_idx = Len(SITES)
    /\ all_links = <<>>
    /\ link_task = <<>>

\* ------------------------------------------------ check_link on its own
LinkUrls == {UrlPlain, UrlSlash, UrlSlashes}

Codes == {199, 200, 301, 399, 400, 403, 404, 405, 500, 501}

Messages == {Filler(0), Filler(DiagCap), Filler(DiagCap + 1)}

\* A response's url is the url of the last request made: never empty.
NetOutcomes(url) ==
    {Response(c, u) : c \in Codes, u \in LinkUrls \cup {UrlMoved}}
    \cup {Raises(cls, m) : cls \in ExceptionClasses, m \in Messages}

InitLink ==
    /\ InitIdle
    /\ served = NothingServed(FALSE)
    /\ script \in {"sitewide", "webcam"}
    /\ pc = "check"
    /\ site_idx = Len(SITES) + 1
    /\ \E u \in LinkUrls :
         all_links = <<IF script = "sitewide"
                       THEN SitewideEntry(u, Page1, Eyehike)
                       ELSE WebcamEntry(u)>>
    /\ link_task = SubmitAll(all_links)

NextLink ==
    \/ AsCompleted
    \/ \E i \in 1..Len(link_task) : StartCheck(i)
    \/ \E i \in 1..Len(link_task) :
          FinishCheck(i, NetOutcomes(all_links[i].url), NetOutcomes(all_links[i].url))
    \/ \E i \in 1..Len(link_task) : Collect(i)
    \/ SortResults

SpecLink == InitLink /\ [][NextLink]_vars

NextCrawl ==
    \/ AsCompleted
    \/ ParseSitemap(IndexFetches)
    \/ \E p \in 1..Len(page_task) : StartPage(p)
    \/ \E p \in 1..Len(page_task) : FinishPage(p, PageFetches)
    \/ \E p \in 1..Len(page_task) : MergePage(p)
    \/ CrawlReturn

SpecCrawl == InitCrawl /\ [][NextCrawl]_vars

\* ------------------------------------------- check_all_links on its own
\* The n-th link URL of a site.
CandUrl(n) == HrefA \o Filler(n - 1)

\* check_all_links(links) as main calls it: in the sitewide script links holds
\* the links of the sites in the order of SITES, each site's with different
\* urls; in the webcam script links with different urls and no site.
InitCheck ==
    /\ InitIdle
    /\ served = NothingServed(FALSE)
    /\ script \in {"sitewide", "webcam"}
    /\ pc = "check"
    /\ site_idx = Len(SITES) + 1
    /\ \E k \in 0..MaxCands, m \in 0..MaxCands :
         /\ k + m <= MaxCands
         /\ script = "webcam" => m = 0
         /\ all_links =
               IF script = "sitewide"
               THEN [i \in 1..k |-> SitewideEntry(CandUrl(i), Page1, SITES[1].name)]
                    \o [i \in 1..m |-> SitewideEntry(CandUrl(i), Page2, SITES[2].name)]
               ELSE [i \in 1..k |-> WebcamEntry(CandUrl(i))]
    /\ link_task = SubmitAll(all_links)

NextCheck ==
    \/ AsCompleted
    \/ \E i \in 1..Len(link_task) : StartCheck(i)
    \/ \E i \in 1..Len(link_task) :
          FinishCheck(i, StatusNet(all_links[i].url), NoGet(all_links[i].url))
    \/ \E i \in 1..Len(link_task) : Collect(i)
    \/ SortResults

SpecCheck == InitCheck /\ [][NextCheck]_vars

\* --------------------------------------------------- the webcam script
WebcamPageFetches ==
    {PageFetch("neterr", <<>>, <<>>), PageFetch("non2xx", <<>>, <<>>)}
    \cup {PageFetch("ok", <<TitleText>>, as) : as \in SeqsUpTo(WebcamAnchors, MaxAnchors)}

InitWebcam ==
    /\ InitIdle
    /\ served = NothingServed(FALSE)
    /\ script = "webcam"
    /\ pc = "scrape"
    /\ site_idx = 0
    /\ all_links = <<>>
    /\ link_task = <<>>

NextWebcam ==
    \/ AsCompleted
    \/ ScrapeLinks(WebcamPageFetches)
    \/ \E i \in 1..Len(link_task) : StartCheck(i)
    \/ \E i \in 1..Len(link_task) :
          FinishCheck(i, MainNet(all_links[i].url), NoGet(all_links[i].url))
    \/ \E i \in 1..Len(link_task) : Collect(i)
    \/ SortResults
    \/ GenerateReport
    \/ SaveJson

SpecWebcam == InitWebcam /\ [][NextWebcam]_vars

\* ------------------------------------- the pages and what they served
\* A relative href whose path begins with the letters http.
HrefRelative == <<"h", "t", "t", "p", ".", "h", "t", "m", "l">>

\* The anchors of the pages when what each page served is recorded.
ServedAnchors ==
    {AnchorA, AnchorB, Anchor(HrefRelative, AnchorText, <<>>),
     Anchor(HrefMailto, AnchorText, <<>>)}

\* What the GET of a page can give: an exception, an error status with or
\* without links in its body, or a page.
ServedPageFetches ==
    {PageFetch("neterr", <<>>, <<>>), PageFetch("non2xx", <<>>, <<>>),
     PageFetch("non2xx", <<TitleText>>, <<AnchorA>>)}
    \cup {PageFetch("ok", <<TitleText>>, as) :
              as \in SeqsUpTo(ServedAnchors, MaxAnchors)}

\* Well-formed indexes of one matching sub-sitemap that lists pages.
ServedIndexFetches ==
    {SitemapFetch("ok", TRUE,
                  <<SitemapEntry(LocWpPost, SitemapFetch("ok", TRUE, us))>>) :
        us \in SubUrlLists \ {<<>>}}

\* crawl_site(SITES[-1]) of the sitewide script, or the webcam script up to
\* its scrape_links, with what the network serves recorded.
InitPages ==
    /\ InitIdle
    /\ served = NothingServed(TRUE)
    /\ script \in {"sitewide", "webcam"}
    /\ pc = IF script = "sitewide" THEN "crawl_site" ELSE "scrape"
    /\ site_idx = IF script = "sitewide" THEN Len(SITES) ELSE 0
    /\ all_links = <<>>
    /\ link_task = <<>>

NextPages ==
    \/ AsCompleted
    \/ ParseSitemap(ServedIndexFetches)
    \/ \E p \in 1..Len(page_task) : StartPage(p)
    \/ \E p \in 1..Len(page_task) : FinishPage(p, ServedPageFetches)
    \/ \E p \in 1..Len(page_task) : MergePage(p)
    \/ CrawlReturn
    \/ ScrapeLinks(ServedPageFetches)

SpecPages == InitPages /\ [][NextPages]_vars

\* --------------------------------------- parse_sitemap_index on its own
\* What the GET of a sub-sitemap can give when the order of the pages is
\* observed.
OrderedSubFetches ==
    {Failed("neterr"), Failed("non2xx"), Failed("ok")}
    \cup {SitemapFetch("ok", TRUE, us) : us \in SubUrlLists \cup {<<Page2>>}}

OrderedIndexFetches ==
    {Failed("neterr"), Failed("non2xx"), Failed("ok")}
    \cup {SitemapFetch("ok", TRUE, es) :
              es \in SeqsUpTo({SitemapEntry(loc, f) :
                                  loc \in {LocPost, LocWpPost, LocCategory},
                                  f \in OrderedSubFetches}, MaxSubs)}

\* crawl_site(SITES[-1]) up to the return of parse_sitemap_index, with the
\* index it was served recorded.
InitSitemap ==
    /\ InitIdle
    /\ served = NothingServed(TRUE)
    /\ script = "sitewide"
    /\ pc = "crawl_site"
    /\ site_idx = Len(SITES)
    /\ all_links = <<>>
    /\ link_task = <<>>

NextSitemap == ParseSitemap(OrderedIndexFetches)

SpecSitemap == InitSitemap /\ [][NextSitemap]_vars

\* ------------------------------------------------- the two thread pools
\* Tasks submitted beyond the number of workers of the pool.
MaxSpare == 1

\* Every HEAD answers 200 at the url asked for.
PoolNet(url) == {Response(200, url)}

PoolPageFetches == {PageFetch("ok", <<TitleText>>, <<AnchorA>>)}

\* A pool right after its submissions, with more tasks than workers: the
\* link checks of either script, or the page tasks of the last site.
InitPool ==
    /\ served = NothingServed(FALSE)
    /\ script \in {"sitewide", "webcam"}
    /\ seen_urls = {}
    /\ site_links = <<>>
    /\ results = <<>>
    /\ exit_code = -1
    /\ report_written = FALSE
    /\ json_written = FALSE
    /\ log = {}
    /\ waiter = NoWaiter
    /\ \/ /\ pc = "check"
          /\ site_idx = Len(SITES) + 1
          /\ page_urls = <<>>
          /\ page_task = <<>>
          /\ all_links =
                [i \in 1..(MaxWorkersOf(script) + MaxSpare) |->
                    IF script = "sitewide"
                    THEN SitewideEntry(CandUrl(i), Page1, SITES[1].name)
                    ELSE WebcamEntry(CandUrl(i))]
          /\ link_task = SubmitAll(all_links)
       \/ /\ script = "sitewide"
          /\ pc = "crawl_pages"
          /\ site_idx = Len(SITES)
          /\ page_urls = [p \in 1..(PAGE_WORKERS + MaxSpare) |-> Page1 \o Filler(p - 1)]
          /\ page_task = [p \in 1..Len(page_urls) |-> QueuedPage]
          /\ all_links = <<>>
          /\ link_task = <<>>

\* The worker threads alone: the as_completed loop of the main thread
\* neither starts nor ends a task.
NextPool ==
    \/ \E i \in 1..Len(link_task) : StartCheck(i)
    \/ \E i \in 1..Len(link_task) :
          FinishCheck(i, PoolNet(all_links[i].url), PoolNet(all_links[i].url))
    \/ \E p \in 1..Len(page_task) : StartPage(p)
    \/ \E p \in 1..Len(page_task) : FinishPage(p, PoolPageFetches)

\* An idle worker takes the next queued task, and a task that runs ends:
\* every request it makes has a timeout.
SpecPool == InitPool /\ [][NextPool]_vars /\ WF_vars(NextPool)

\* ------------------------------------------------------------- claims
\* The check_link calls that have returned or raised.
Finished == {i \in 1..Len(link_task) : link_task[i].state \in {"done", "collected"}}

\* The result of finished call i (defined when it returned one).
ResultOf(i) == link_task[i].value[1]

\* What the last request of finished call i gave.
LastOutcome(i) == link_task[i].reqs[Len(link_task[i].reqs)].outcome

\* C1: every CheckResult check_link returns, on every path, has a non-empty
\* final_url exactly when its status is REDIRECT.
C1_FinalUrlIffRedirect ==
    \A i \in Finished :
        link_task[i].value # <<>> =>
            ((ResultOf(i).final_url # <<>>) <=> (ResultOf(i).status = "REDIRECT"))

\* A redirect found by the fallback GET, with the final URL recorded.
C1_Witness ==
    \E i \in Finished :
        /\ Len(link_task[i].reqs) = 2
        /\ link_task[i].value # <<>>
        /\ ResultOf(i).status = "REDIRECT"
        /\ ResultOf(i).final_url = UrlMoved

\* C2: check_link never raises: whatever HEAD and GET give, it returns a
\* result whose status is one of the five, and collecting never aborts.
C2_NeverRaises ==
    /\ \A i \in Finished :
          /\ link_task[i].value # <<>>
          /\ ResultOf(i).status \in STATUSES
    /\ pc # "exit"

\* The fallback GET raised an exception that is no requests exception, and
\* the call still returned a result.
C2_Witness ==
    \E i \in Finished :
        /\ Len(link_task[i].reqs) = 2
        /\ LastOutcome(i).kind = "raise"
        /\ LastOutcome(i).exc = "UnicodeError"
        /\ link_task[i].state = "collected"
        /\ Len(results) = 1

\* C3: a request that fails with a timeout, connect timeouts included, gives
\* TIMEOUT with status_code "Timeout"; a refused connection or failed DNS
\* lookup gives BROKEN; any other exception gives ERROR with a diagnostic of
\* at most 60 characters.
C3_FailureClassification ==
    \A i \in Finished :
        (link_task[i].value # <<>> /\ LastOutcome(i).kind = "raise") =>
            LET cls == LastOutcome(i).exc
                r   == ResultOf(i)
            IN  IF cls \in {"ConnectTimeout", "ReadTimeout"}
                THEN r.status = "TIMEOUT" /\ r.status_code = StrCode(TimeoutText)
                ELSE IF cls = "ConnectionError"
                THEN r.status = "BROKEN"
                ELSE /\ r.status = "ERROR"
                     /\ "text" \in DOMAIN r.status_code
                     /\ Len(r.status_code.text) <= DiagCap

\* C4: GET is issued exactly when HEAD answered 403, 405 or 501, at most once
\* and after the one HEAD; when it is issued and answers, the result is
\* classified from GET's status code and URL alone.
C4_MethodFallback ==
    \A i \in Finished :
        LET reqs == link_task[i].reqs
            head == reqs[1].outcome
        IN  /\ reqs[1].method = "HEAD"
            /\ Cardinality({k \in 1..Len(reqs) : reqs[k].method = "HEAD"}) = 1
            /\ Cardinality({k \in 1..Len(reqs) : reqs[k].method = "GET"}) <= 1
            /\ (\E k \in 1..Len(reqs) : reqs[k].method = "GET")
                   <=> (head.kind = "response" /\ head.status_code \in {403, 405, 501})
            /\ (Len(reqs) = 2 /\ reqs[2].outcome.kind = "response"
                    /\ link_task[i].value # <<>>) =>
                   LET get == reqs[2].outcome
                       r   == ResultOf(i)
                       ok  == 200 <= get.status_code /\ get.status_code < 400
                   IN  /\ r.status_code = IntCode(get.status_code)
                       /\ (r.status = "BROKEN") <=> ~ok
                       /\ r.final_url \in {<<>>, get.url}
                       /\ (ok /\ get.url = all_links[i].url) => r.status = "OK"

\* HEAD answered 403, GET answered 200 at the same URL, and the link is OK.
C4_Witness ==
    \E i \in Finished :
        /\ Len(link_task[i].reqs) = 2
        /\ link_task[i].reqs[1].outcome.status_code = 403
        /\ LastOutcome(i).kind = "response"
        /\ LastOutcome(i).status_code = 200
        /\ LastOutcome(i).url = all_links[i].url
        /\ ResultOf(i).status = "OK"

\* Every page task of the site merged.
AllMerged ==
    /\ page_task # <<>>
    /\ \A p \in 1..Len(page_task) : page_task[p].state = "merged"

\* The pages, by their place in the seed list, whose extracted links hold url.
PagesWith(url) ==
    {p \in 1..Len(page_task) :
        /\ page_task[p].state \in {"done", "merged"}
        /\ \E k \in 1..Len(page_task[p].links) : page_task[p].links[k].url = url}

\* C5: a link URL found on several pages of a site is kept with the page_url
\* and page_title of the first of those pages in the seed order, whatever
\* order the page tasks complete in.
C5_FirstSeedPageWins ==
    AllMerged =>
        \A k \in 1..Len(site_links) :
            LET first == CHOOSE p \in PagesWith(site_links[k].url) :
                             \A q \in PagesWith(site_links[k].url) : p <= q
                found == CHOOSE l \in Range(page_task[first].links) :
                             l.url = site_links[k].url
            IN  /\ site_links[k].page_url = found.page_url
                /\ site_links[k].page_title = found.page_title

\* C6: the list crawl_site builds and returns never holds two candidates with
\* the same url.
C6_UniqueUrls ==
    \A i, j \in 1..Len(site_links) :
        i # j => site_links[i].url # site_links[j].url

\* crawl_site returned after merging two pages that both hold the same link.
C6_Witness ==
    /\ pc = "check"
    /\ AllMerged
    /\ Len(page_task) >= 2
    /\ \E u \in {HrefA, HrefB} : Cardinality(PagesWith(u)) >= 2
    /\ Len(site_links) = 2

\* The place of result r's candidate in the input list.
InputIndex(r) ==
    CHOOSE k \in 1..Len(all_links) :
        all_links[k].url = r.url /\ SiteOf(all_links[k]) = SiteOf(r)

\* C7: results with the same site name and the same severity rank come out in
\* the relative order of their candidates in the input list, whatever order
\* the workers complete in.
C7_InputOrderWithinEqualKey ==
    pc = "report" =>
        \A i, j \in 1..Len(results) :
            (/\ i < j
             /\ SiteOf(results[i]) = SiteOf(results[j])
             /\ order(results[i].status) = order(results[j].status))
                => InputIndex(results[i]) < InputIndex(results[j])

\* The severity ranks as the claim gives them.
C8_Rank(status) ==
    CASE status = "BROKEN" -> 0 [] status = "TIMEOUT" -> 1 [] status = "ERROR" -> 2
      [] status = "REDIRECT" -> 3 [] status = "OK" -> 4

\* C8: the sequence check_all_links returns is grouped by site name in
\* ascending order, and of two results of one site with different severity
\* rank the one with the lower rank comes first.
C8_GroupedBySiteThenRank ==
    pc = "report" =>
        \A i, j \in 1..Len(results) :
            i < j =>
                /\ ~StrLess(SiteOf(results[j]), SiteOf(results[i]))
                /\ (/\ SiteOf(results[i]) = SiteOf(results[j])
                    /\ C8_Rank(results[i].status) # C8_Rank(results[j].status))
                       => C8_Rank(results[i].status) < C8_Rank(results[j].status)

\* Sorted output with two sites, and two ranks within one of them.
C8_Witness ==
    /\ pc = "report"
    /\ \E i, j \in 1..Len(results) : SiteOf(results[i]) # SiteOf(results[j])
    /\ \E i, j \in 1..Len(results) :
          /\ i < j
          /\ SiteOf(results[i]) = SiteOf(results[j])
          /\ results[i].status = "TIMEOUT"
          /\ results[j].status = "OK"

\* C9: a sitemap index whose fetch fails by a network error, by a non-2xx
\* answer or by malformed XML makes parse_sitemap_index return no page
\* without raising, and main goes on to the remaining sites: the run never
\* ends inside the loop over SITES.
C9_IndexFailureIsSoft ==
    /\ \A s \in 1..Len(SITES) : <<"index_parse_error", s>> \notin log
    /\ pc = "exit" => site_idx > Len(SITES)

\* The index fetch of every configured site failed.
NoSeedReached == \A s \in 1..Len(SITES) : <<"sitemap_error", s>> \in log

\* C10: when no seed can be reached the process ends with a non-zero status
\* and writes neither the HTML report nor the JSON snapshot.
C10_NoReportWithoutSeed ==
    NoSeedReached =>
        /\ ~report_written
        /\ ~json_written
        /\ pc = "exit" => exit_code # 0

\* The page tasks whose GET failed, by an exception or by an error status.
FailedPages ==
    {p \in 1..Len(page_task) :
        \E d \in served.pages : d[1] = p /\ d[2].kind # "ok"}

\* The hrefs of the served pages that are links to other sites.
ExternalHrefs == {HrefA, HrefB}

\* The external hrefs on the pages that were fetched well.
HrefsOfGoodPages ==
    {h \in ExternalHrefs :
        \E d \in served.pages :
            /\ d[2].kind = "ok"
            /\ \E k \in 1..Len(d[2].anchors) : d[2].anchors[k].href = h}

\* C11: in crawl_site a page whose fetch raises or answers non-2xx gives no
\* link and never ends the crawl: the crawl of the site never aborts once
\* its pages are known, and the list merged and returned holds the external
\* links of every page that was fetched well, and only those.
C11_PageFailureIsLocal ==
    script = "sitewide" =>
        /\ \A p \in FailedPages : page_task[p].links = <<>>
        /\ pc # "exit"
        /\ AllMerged =>
              /\ \A h \in HrefsOfGoodPages :
                    \E k \in 1..Len(site_links) : site_links[k].url = h
              /\ \A k \in 1..Len(site_links) :
                    site_links[k].url \in ExternalHrefs =>
                        site_links[k].url \in HrefsOfGoodPages
        /\ pc = "check" => all_links = site_links

\* crawl_site returned the one link of the second page while the first page
\* answered with an error status whose body held another link.
C11_Witness ==
    /\ script = "sitewide"
    /\ pc = "check"
    /\ Len(page_task) = 2
    /\ <<1, PageFetch("non2xx", <<TitleText>>, <<AnchorA>>)>> \in served.pages
    /\ <<2, PageFetch("ok", <<TitleText>>, <<AnchorB>>)>> \in served.pages
    /\ Len(all_links) = 1
    /\ all_links[1].url = HrefB

\* The two schemes a link url may start with.
HttpScheme == Http \o <<":", "/", "/">>
HttpsScheme == Http \o <<"s", ":", "/", "/">>

\* C12: every link extract_links_from_page or scrape_links returns has a url
\* that starts with http:// or https://, whatever hrefs the page holds.
C12_OnlyHttpUrls ==
    /\ \A p \in 1..Len(page_task) : \A k \in 1..Len(page_task[p].links) :
          \/ startswith(page_task[p].links[k].url, HttpScheme)
          \/ startswith(page_task[p].links[k].url, HttpsScheme)
    /\ \A k \in 1..Len(all_links) :
          \/ startswith(all_links[k].url, HttpScheme)
          \/ startswith(all_links[k].url, HttpsScheme)

\* A <sitemap> element of an index whose loc matches the filter and whose
\* own sitemap was fetched and parsed.
GoodSub(e, filter_list) ==
    /\ \E k \in 1..Len(filter_list) : Contains(e.loc, filter_list[k])
    /\ e.fetch.kind = "ok"
    /\ e.fetch.wellformed

\* The page URLs of the good sub-sitemaps among the first n elements of an
\* index, in index order.
RECURSIVE PagesOfGoodSubs(_, _, _)
PagesOfGoodSubs(entries, n, filter_list) ==
    IF n = 0 THEN <<>>
    ELSE PagesOfGoodSubs(entries, n - 1, filter_list)
         \o (IF GoodSub(entries[n], filter_list)
             THEN SelectSeq(entries[n].fetch.entries, LAMBDA u : u # <<>>)
             ELSE <<>>)

\* C13: parse_sitemap_index skips a sub-sitemap whose fetch or parse fails
\* on its own: for a well-formed index it returns exactly the page URLs of
\* the matching sub-sitemaps that succeeded, in index order, and none of a
\* sub-sitemap that matches no filter.
C13_SubSitemapFailureIsLocal ==
    (/\ served.index # <<>>
     /\ served.index[1].kind = "ok"
     /\ served.index[1].wellformed) =>
        /\ pc # "exit"
        /\ page_urls = PagesOfGoodSubs(served.index[1].entries,
                                       Len(served.index[1].entries),
                                       SITES[Len(SITES)].sitemap_filter)

\* The first matching sub-sitemap could not be fetched and the pages of the
\* second are returned.
C13_Witness ==
    /\ served.index =
          <<SitemapFetch("ok", TRUE,
                         <<SitemapEntry(LocWpPost, Failed("neterr")),
                           SitemapEntry(LocWpPost,
                                        SitemapFetch("ok", TRUE,
                                                     <<Page1, <<>>, Page2>>))>>)>>
    /\ page_urls = <<Page1, Page2>>
    /\ pc = "crawl_pages"

\* The check_link calls whose result the as_completed loop has appended.
Collected == {i \in 1..Len(link_task) : link_task[i].state = "collected"}

\* Result r is candidate c extended with the three outcome fields.
Extends(r, c) ==
    /\ DOMAIN r = DOMAIN c \cup {"status", "status_code", "final_url"}
    /\ \A f \in DOMAIN c : r[f] = c[f]

\* C14: check_all_links returns exactly one result per candidate: at every
\* moment results holds, once each, the results of the calls collected so
\* far, each its candidate extended with the outcome fields, and what is
\* returned after the sort has one result for every candidate.
C14_OneResultPerCandidate ==
    /\ pc # "exit"
    /\ Len(results) = Cardinality(Collected)
    /\ \A i \in Collected :
          /\ Cardinality({k \in 1..Len(results) : results[k] = ResultOf(i)}) = 1
          /\ Extends(ResultOf(i), all_links[i])
    /\ \A k \in 1..Len(results) : \E i \in Collected : results[k] = ResultOf(i)
    /\ pc = "report" => Collected = 1..Len(all_links)

\* Three candidates of one site returned, the last one first, two of them
\* with the same status.
C14_Witness ==
    /\ pc = "report"
    /\ Len(all_links) = 3
    /\ Len(results) = 3
    /\ SiteOf(all_links[1]) = SiteOf(all_links[3])
    /\ results[1].url = all_links[3].url
    /\ results[1].status = results[2].status

\* s without one trailing slash, when it has one.
StripOneSlash(s) ==
    IF s # <<>> /\ s[Len(s)] = "/" THEN SubSeq(s, 1, Len(s) - 1) ELSE s

\* C16: for a last response with 200 <= code < 400, check_link gives
\* REDIRECT exactly when the final URL and the original URL differ after one
\* trailing slash is taken off each, and OK otherwise.
C16_SingleSlashIgnored ==
    \A i \in Finished :
        (/\ link_task[i].value # <<>>
         /\ LastOutcome(i).kind = "response"
         /\ 200 <= LastOutcome(i).status_code
         /\ LastOutcome(i).status_code < 400) =>
            /\ ResultOf(i).status \in {"REDIRECT", "OK"}
            /\ (ResultOf(i).status = "REDIRECT")
                   <=> (StripOneSlash(LastOutcome(i).url)
                            # StripOneSlash(all_links[i].url))

\* Every submitted task has been taken by a worker.
NothingQueued ==
    /\ \A i \in 1..Len(link_task) : link_task[i].state # "queued"
    /\ \A p \in 1..Len(page_task) : page_task[p].state # "queued"

\* C15: at every moment at most 12 check_link calls of the sitewide script,
\* at most 10 of the webcam script and at most 5 page extractions are in
\* flight, the page bound is smaller than both check bounds, and every
\* submitted task is run in the end.
C15_BoundedConcurrency ==
    /\ [](/\ Cardinality(InFlight(link_task))
                <= (IF script = "sitewide" THEN 12 ELSE 10)
          /\ Cardinality(InFlight(page_task)) <= 5
          /\ PAGE_WORKERS < MAX_WORKERS
          /\ PAGE_WORKERS < WEBCAM_MAX_WORKERS)
    /\ <>NothingQueued

\* All twelve workers of the sitewide script are busy and a thirteenth check
\* waits in the queue.
C15_Witness ==
    /\ script = "sitewide"
    /\ pc = "check"
    /\ Cardinality(InFlight(link_task)) = MAX_WORKERS
    /\ \E i \in 1..Len(link_task) : link_task[i].state = "queued"

====
